---- MODULE Spec2Model ----
(***************************************************************************)
(* Nautilus TEE server (backend/nautilus-tee): the attestation service,    *)
(* the ZK claim-proof service, the biometric and liveness services and the *)
(* three request handlers that combine them.                               *)
(*                                                                         *)
(* Strings and byte buffers are sequences of byte values (0..255); string  *)
(* literals of the source are written out as their ASCII bytes.            *)
(***************************************************************************)
EXTENDS Integers, Sequences, FiniteSets, TLC

VARIABLES
    image_id,   \* AttestationService.image_id, fixed at construction
    overflow_checks, \* the build profile: TRUE when u64 overflow panics (debug)
    now,        \* the system clock, seconds since the epoch (u64)
    att,        \* the last direct call of AttestationService::generate and its result
    attLog,     \* history: what each direct generate call so far bound
    zk,         \* the last direct call of ZKProofService::generate and its result
    pc,         \* position of the request handler
    req,        \* the request being handled
    cap,        \* the capability's result held by the handler
    resp,       \* the handler's response
    trace       \* history: the service calls the handler has made, in order

vars == <<image_id, overflow_checks, now, att, attLog, zk, pc, req, cap, resp, trace>>

(* String literals of the source, as bytes.                                *)

\* "nautilus-tee-image-v1"
DEFAULT_IMAGE_ID == <<110, 97, 117, 116, 105, 108, 117, 115, 45, 116, 101, 101, 45, 105, 109, 97, 103, 101, 45, 118, 49>>
\* "v1.0.0"
PCR1_INPUT == <<118, 49, 46, 48, 46, 48>>
\* "nautilus-tee"
PCR2_INPUT == <<110, 97, 117, 116, 105, 108, 117, 115, 45, 116, 101, 101>>
\* "sha256:"
DIGEST_PREFIX == <<115, 104, 97, 50, 53, 54, 58>>
\* "module_id"
KEY_module_id == <<109, 111, 100, 117, 108, 101, 95, 105, 100>>
\* "digest"
KEY_digest == <<100, 105, 103, 101, 115, 116>>
\* "timestamp"
KEY_timestamp == <<116, 105, 109, 101, 115, 116, 97, 109, 112>>
\* "operation"
KEY_operation == <<111, 112, 101, 114, 97, 116, 105, 111, 110>>
\* "vault_id"
KEY_vault_id == <<118, 97, 117, 108, 116, 95, 105, 100>>
\* "biometric_verification"
OP_BIOMETRIC == <<98, 105, 111, 109, 101, 116, 114, 105, 99, 95, 118, 101, 114, 105, 102, 105, 99, 97, 116, 105, 111, 110>>
\* "liveness_check"
OP_LIVENESS == <<108, 105, 118, 101, 110, 101, 115, 115, 95, 99, 104, 101, 99, 107>>
\* "zk_proof_generation"
OP_ZK == <<122, 107, 95, 112, 114, 111, 111, 102, 95, 103, 101, 110, 101, 114, 97, 116, 105, 111, 110>>
\* "keyword"
CT_keyword == <<107, 101, 121, 119, 111, 114, 100>>
\* "timestamp"
CT_timestamp == <<116, 105, 109, 101, 115, 116, 97, 109, 112>>
\* "file_hash"
CT_file_hash == <<102, 105, 108, 101, 95, 104, 97, 115, 104>>
\* "Unsupported claim type: "
ERR_UNSUPPORTED_PREFIX == <<85, 110, 115, 117, 112, 112, 111, 114, 116, 101, 100, 32, 99, 108, 97, 105, 109, 32, 116, 121, 112, 101, 58, 32>>
\* "Missing keyword in claim_value"
ERR_MISSING_KEYWORD == <<77, 105, 115, 115, 105, 110, 103, 32, 107, 101, 121, 119, 111, 114, 100, 32, 105, 110, 32, 99, 108, 97, 105, 109, 95, 118, 97, 108, 117, 101>>
\* "Missing hash in claim_value"
ERR_MISSING_HASH == <<77, 105, 115, 115, 105, 110, 103, 32, 104, 97, 115, 104, 32, 105, 110, 32, 99, 108, 97, 105, 109, 95, 118, 97, 108, 117, 101>>
\* "Empty biometric data"
ERR_EMPTY_BIOMETRIC == <<69, 109, 112, 116, 121, 32, 98, 105, 111, 109, 101, 116, 114, 105, 99, 32, 100, 97, 116, 97>>
\* "keyword_hash_"
KEYWORD_HASH_PREFIX == <<107, 101, 121, 119, 111, 114, 100, 95, 104, 97, 115, 104, 95>>
\* "0"
DEFAULT_MIN == <<48>>
\* "9999999999"
DEFAULT_MAX == <<57, 57, 57, 57, 57, 57, 57, 57, 57, 57>>

(* Byte-level encodings used by the services.                              *)

\* One lowercase hexadecimal digit, as hex::encode and serde_json write it.
HexDigit(n) == IF n < 10 THEN 48 + n ELSE 87 + n

\* hex::encode: two lowercase hex digits per byte, high nibble first.
HexEncode(bytes) ==
    [i \in 1..(2 * Len(bytes)) |->
        IF i % 2 = 1 THEN HexDigit(bytes[(i + 1) \div 2] \div 16)
                     ELSE HexDigit(bytes[i \div 2] % 16)]

\* Sha256::new().update(m).finalize(): SHA-256 taken as a collision-free
\* function.  The digest of m is the tagged message itself, so two digests
\* are equal exactly when the hashed byte strings are equal.
Sha256(m) == <<83>> \o m

\* The base64 STANDARD alphabet: A-Z a-z 0-9 + /
Base64Char(s) ==
    IF s < 26 THEN 65 + s
    ELSE IF s < 52 THEN 97 + (s - 26)
    ELSE IF s < 62 THEN 48 + (s - 52)
    ELSE IF s = 62 THEN 43 ELSE 47

\* STANDARD.encode: three bytes to four characters, '=' padding.
Base64Encode(bytes) ==
    LET n == Len(bytes)
        At(j) == IF j <= n THEN bytes[j] ELSE 0
    IN  [i \in 1..(4 * ((n + 2) \div 3)) |->
            LET g  == (i - 1) \div 4
                k  == (i - 1) % 4
                b0 == At(3 * g + 1)
                b1 == At(3 * g + 2)
                b2 == At(3 * g + 3)
            IN  IF k = 0 THEN Base64Char(b0 \div 4)
                ELSE IF k = 1 THEN Base64Char((b0 % 4) * 16 + (b1 \div 16))
                ELSE IF k = 2 THEN
                    IF 3 * g + 2 > n THEN 61
                    ELSE Base64Char((b1 % 16) * 4 + (b2 \div 64))
                ELSE
                    IF 3 * g + 3 > n THEN 61 ELSE Base64Char(b2 % 64)]

\* The value of one base64 character; -1 for a byte outside the alphabet.
Base64Value(c) ==
    IF c >= 65 /\ c <= 90 THEN c - 65
    ELSE IF c >= 97 /\ c <= 122 THEN c - 97 + 26
    ELSE IF c >= 48 /\ c <= 57 THEN c - 48 + 52
    ELSE IF c = 43 THEN 62
    ELSE IF c = 47 THEN 63 ELSE -1

\* STANDARD.decode of a padded string; <<-1>> when the input is not base64.
Base64Decode(text) ==
    LET n   == Len(text)
        pad == IF n >= 2 /\ text[n] = 61 /\ text[n - 1] = 61 THEN 2
               ELSE IF n >= 1 /\ text[n] = 61 THEN 1 ELSE 0
        V(j) == IF text[j] = 61 THEN 0 ELSE Base64Value(text[j])
        wellFormed ==
            /\ n % 4 = 0
            /\ \A j \in 1..(n - pad) : Base64Value(text[j]) >= 0
    IN  IF ~wellFormed THEN <<-1>>
        ELSE [i \in 1..(3 * (n \div 4) - pad) |->
                LET g == (i - 1) \div 3
                    k == (i - 1) % 3
                    s0 == V(4 * g + 1)
                    s1 == V(4 * g + 2)
                    s2 == V(4 * g + 3)
                    s3 == V(4 * g + 4)
                IN  IF k = 0 THEN s0 * 4 + (s1 \div 16)
                    ELSE IF k = 1 THEN (s1 % 16) * 16 + (s2 \div 4)
                    ELSE (s2 % 4) * 64 + s3]

\* u64::to_string: decimal digits, no leading zeros.
RECURSIVE U64ToString(_)
U64ToString(n) ==
    IF n < 10 THEN <<48 + n>> ELSE U64ToString(n \div 10) \o <<48 + (n % 10)>>

\* serde_json's escaping of one byte of a string.
JsonEscapeByte(b) ==
    CASE b = 34 -> <<92, 34>>
      [] b = 92 -> <<92, 92>>
      [] b = 8  -> <<92, 98>>
      [] b = 9  -> <<92, 116>>
      [] b = 10 -> <<92, 110>>
      [] b = 12 -> <<92, 102>>
      [] b = 13 -> <<92, 114>>
      [] b < 32 /\ b \notin {8, 9, 10, 12, 13} ->
            <<92, 117, 48, 48, HexDigit(b \div 16), HexDigit(b % 16)>>
      [] OTHER -> <<b>>

\* The escaped form of s[lo..hi], built by halving the range.
RECURSIVE JsonEscapeRange(_, _, _)
JsonEscapeRange(s, lo, hi) ==
    IF lo > hi THEN <<>>
    ELSE IF lo = hi THEN JsonEscapeByte(s[lo])
    ELSE LET mid == (lo + hi) \div 2
         IN  JsonEscapeRange(s, lo, mid) \o JsonEscapeRange(s, mid + 1, hi)

JsonEscape(s) == JsonEscapeRange(s, 1, Len(s))

\* JsonString with the escaping step left out.
JsonString_unescaped(s) == <<34>> \o s \o <<34>>

\* A JSON string: quoted and escaped.
JsonString(s) == <<34>> \o JsonEscape(s) \o <<34>>

(* Reading a serialized AttestationDocument back (serde Deserialize).      *)

HexValue(c) ==
    IF c >= 48 /\ c <= 57 THEN c - 48
    ELSE IF c >= 97 /\ c <= 102 THEN c - 87
    ELSE IF c >= 65 /\ c <= 70 THEN c - 55 ELSE -1

\* The byte a two-character escape stands for; -1 when it is no escape.
JsonUnescape(c) ==
    CASE c = 34  -> 34
      [] c = 92  -> 92
      [] c = 47  -> 47
      [] c = 98  -> 8
      [] c = 116 -> 9
      [] c = 110 -> 10
      [] c = 102 -> 12
      [] c = 114 -> 13
      [] OTHER   -> -1

\* Scans a JSON string whose opening quote is at position i - 1, the way
\* serde_json does: skip to the next quote, backslash or control byte, copy
\* what was skipped, then handle that byte.  Returns [ok, val, next]: the
\* unescaped bytes and the position after the closing quote.
RECURSIVE JsonScanString(_, _, _)
JsonScanString(b, i, acc) ==
    LET special == {j \in i..Len(b) : b[j] = 34 \/ b[j] = 92 \/ b[j] < 32}
        j       == CHOOSE x \in special : \A y \in special : x <= y
        pre     == acc \o SubSeq(b, i, j - 1)
        fail    == [ok |-> FALSE, val |-> acc, next |-> i]
    IN  IF special = {} THEN fail
        ELSE IF b[j] = 34 THEN [ok |-> TRUE, val |-> pre, next |-> j + 1]
        ELSE IF b[j] < 32 THEN fail
        ELSE IF j + 1 > Len(b) THEN fail
        ELSE IF b[j + 1] = 117 THEN
            IF /\ j + 5 <= Len(b)
               /\ b[j + 2] = 48 /\ b[j + 3] = 48
               /\ HexValue(b[j + 4]) >= 0 /\ HexValue(b[j + 5]) >= 0
            THEN JsonScanString(b, j + 6,
                    Append(pre, 16 * HexValue(b[j + 4]) + HexValue(b[j + 5])))
            ELSE fail
        ELSE IF JsonUnescape(b[j + 1]) >= 0
            THEN JsonScanString(b, j + 2, Append(pre, JsonUnescape(b[j + 1])))
            ELSE fail

\* Scans an unsigned decimal number starting at position i.
RECURSIVE JsonScanNumber(_, _, _, _)
JsonScanNumber(b, i, acc, seen) ==
    IF i <= Len(b) /\ b[i] >= 48 /\ b[i] <= 57
    THEN JsonScanNumber(b, i + 1, 10 * acc + (b[i] - 48), TRUE)
    ELSE [ok |-> seen, val |-> acc, next |-> i]

\* Scans the members of an object from position i (after '{' or ',').
\* A member is <<key, isString, string value, number value>>.
RECURSIVE JsonScanMembers(_, _, _)
JsonScanMembers(b, i, acc) ==
    IF i > Len(b) \/ b[i] # 34 THEN [ok |-> FALSE, members |-> acc]
    ELSE
      LET key == JsonScanString(b, i + 1, <<>>)
          j   == key.next
      IN  IF ~key.ok \/ j + 1 > Len(b) \/ b[j] # 58
          THEN [ok |-> FALSE, members |-> acc]
          ELSE
            LET isStr == b[j + 1] = 34
                sval  == IF isStr THEN JsonScanString(b, j + 2, <<>>)
                         ELSE [ok |-> TRUE, val |-> <<>>, next |-> j + 1]
                nval  == IF isStr THEN [ok |-> TRUE, val |-> 0, next |-> sval.next]
                         ELSE JsonScanNumber(b, j + 1, 0, FALSE)
                k     == nval.next
                more  == Append(acc, <<key.val, isStr, sval.val, nval.val>>)
            IN  IF ~sval.ok \/ ~nval.ok \/ k > Len(b)
                THEN [ok |-> FALSE, members |-> acc]
                ELSE IF b[k] = 44 THEN JsonScanMembers(b, k + 1, more)
                ELSE IF b[k] = 125 /\ k = Len(b)
                     THEN [ok |-> TRUE, members |-> more]
                     ELSE [ok |-> FALSE, members |-> acc]

\* serde_json::from_slice::<AttestationDocument>: every field present once,
\* strings for the four text fields and a number for the timestamp.
ParseAttestationDocument(bytes) ==
    LET scan == IF Len(bytes) >= 2 /\ bytes[1] = 123
                THEN JsonScanMembers(bytes, 2, <<>>)
                ELSE [ok |-> FALSE, members |-> <<>>]
        ms   == scan.members
        Idx(k) == {i \in 1..Len(ms) : ms[i][1] = k}
        Str(k) == ms[CHOOSE i \in Idx(k) : TRUE][3]
        Num(k) == ms[CHOOSE i \in Idx(k) : TRUE][4]
        textKeys == {KEY_module_id, KEY_digest, KEY_operation, KEY_vault_id}
        ok   == /\ scan.ok
                /\ \A k \in textKeys :
                      /\ Cardinality(Idx(k)) = 1
                      /\ \A i \in Idx(k) : ms[i][2]
                /\ Cardinality(Idx(KEY_timestamp)) = 1
                /\ \A i \in Idx(KEY_timestamp) : ~ms[i][2]
    IN  IF ok
        THEN [ok |-> TRUE,
              module_id |-> Str(KEY_module_id),
              digest    |-> Str(KEY_digest),
              timestamp |-> Num(KEY_timestamp),
              operation |-> Str(KEY_operation),
              vault_id  |-> Str(KEY_vault_id)]
        ELSE [ok |-> FALSE, module_id |-> <<>>, digest |-> <<>>,
              timestamp |-> 0, operation |-> <<>>, vault_id |-> <<>>]

(* AttestationService (attestation.rs).                                    *)

\* get_pcr_measurements: the three placeholder registers.
get_pcr_measurements(self_image_id) ==
    [pcr0 |-> HexEncode(Sha256(self_image_id)),
     pcr1 |-> HexEncode(Sha256(PCR1_INPUT)),
     pcr2 |-> HexEncode(Sha256(PCR2_INPUT))]

\* The binding digest: sha256 over format!("{}{}{}", vault_id, operation, pcr0).
BindingDigest(vault_id, operation, pcr0) ==
    DIGEST_PREFIX \o HexEncode(Sha256(vault_id \o operation \o pcr0))

\* serde_json::to_vec(&AttestationDocument): the fields in declaration order.
SerializeDocument(doc) ==
    <<123>> \o JsonString(KEY_module_id) \o <<58>> \o JsonString(doc.module_id)
      \o <<44>> \o JsonString(KEY_digest) \o <<58>> \o JsonString(doc.digest)
      \o <<44>> \o JsonString(KEY_timestamp) \o <<58>> \o U64ToString(doc.timestamp)
      \o <<44>> \o JsonString(KEY_operation) \o <<58>> \o JsonString(doc.operation)
      \o <<44>> \o JsonString(KEY_vault_id) \o <<58>> \o JsonString(doc.vault_id)
      \o <<125>>

\* sign_document: the placeholder hash-based signature.
sign_document(document) == Sha256(document)

\* AttestationDocumentOf with the clock reading mixed into the binding digest.
AttestationDocumentOf_timed(self_image_id, vault_id, operation, t) ==
    [module_id |-> self_image_id,
     digest    |-> BindingDigest(vault_id, operation \o U64ToString(t),
                                 get_pcr_measurements(self_image_id).pcr0),
     timestamp |-> t,
     operation |-> operation,
     vault_id  |-> vault_id]

\* The AttestationDocument that generate assembles at clock reading t.
AttestationDocumentOf(self_image_id, vault_id, operation, t) ==
    [module_id |-> self_image_id,
     digest    |-> BindingDigest(vault_id, operation,
                                 get_pcr_measurements(self_image_id).pcr0),
     timestamp |-> t,
     operation |-> operation,
     vault_id  |-> vault_id]

\* AttestationService::generate at clock reading t.  Every step of it is
\* infallible in this build, so the result is always Ok(Attestation).
AttestationGenerate(self_image_id, vault_id, operation, t) ==
    LET measurements == get_pcr_measurements(self_image_id)
        document == AttestationDocumentOf(self_image_id, vault_id, operation, t)
        document_bytes == SerializeDocument(document)
        signature == sign_document(document_bytes)
    IN  [document  |-> Base64Encode(document_bytes),
         signature |-> Base64Encode(signature),
         enclave_info |-> [image_id     |-> self_image_id,
                           measurements |-> measurements,
                           timestamp    |-> document.timestamp]]

(* ZKProofService (zk_proof.rs).                                          *)

\* A field of claim_value (a serde_json::Value object): absent, a string, a
\* non-negative integer or a negative integer.
Absent  == [kind |-> "absent", s |-> <<>>, n |-> 0]
JStr(s) == [kind |-> "string", s |-> s, n |-> 0]
JU64(n) == [kind |-> "u64", s |-> <<>>, n |-> n]
JI64(n) == [kind |-> "i64", s |-> <<>>, n |-> n]

\* claim_value.get(k).and_then(|v| v.as_str()) is Some
IsStr(v) == v.kind = "string"
\* claim_value.get(k).and_then(|v| v.as_u64()) is Some
IsU64(v) == v.kind = "u64"

\* The placeholder proof objects.
KeywordProof ==
    [pi_a |-> <<"0x1234", "0x5678">>,
     pi_b |-> <<<<"0xabcd", "0xef01">>, <<"0x2345", "0x6789">>>>,
     pi_c |-> <<"0x9876", "0x5432">>]

TimestampProof ==
    [pi_a |-> <<"0x1111", "0x2222">>,
     pi_b |-> <<<<"0x3333", "0x4444">>, <<"0x5555", "0x6666">>>>,
     pi_c |-> <<"0x7777", "0x8888">>]

HashProof ==
    [pi_a |-> <<"0xaaaa", "0xbbbb">>,
     pi_b |-> <<<<"0xcccc", "0xdddd">>, <<"0xeeee", "0xffff">>>>,
     pi_c |-> <<"0x0000", "0x1111">>]

NullProof ==
    [pi_a |-> <<"", "">>, pi_b |-> <<<<"", "">>, <<"", "">>>>, pi_c |-> <<"", "">>]

\* Result<ZKProofResult, String>
ZkOk(proof, public_signals) ==
    [ok |-> TRUE, err |-> <<>>, proof |-> proof, public_signals |-> public_signals]
ZkErr(message) ==
    [ok |-> FALSE, err |-> message, proof |-> NullProof, public_signals |-> <<>>]

\* generate_keyword_proof with a missing keyword read as the empty string.
generate_keyword_proof_defaulting(claim_value, encrypted_data) ==
    ZkOk(KeywordProof,
         <<KEYWORD_HASH_PREFIX \o HexEncode(Sha256(
              IF IsStr(claim_value.keyword) THEN claim_value.keyword.s ELSE <<>>))>>)

generate_keyword_proof(claim_value, encrypted_data) ==
    IF ~IsStr(claim_value.keyword) THEN ZkErr(ERR_MISSING_KEYWORD)
    ELSE ZkOk(KeywordProof,
              <<KEYWORD_HASH_PREFIX \o HexEncode(Sha256(claim_value.keyword.s))>>)

\* generate_timestamp_proof with the two signals in the wrong order.
generate_timestamp_proof_swapped(claim_value, encrypted_data) ==
    ZkOk(TimestampProof,
         << IF IsU64(claim_value.max) THEN U64ToString(claim_value.max.n)
                                      ELSE DEFAULT_MAX,
            IF IsU64(claim_value.min) THEN U64ToString(claim_value.min.n)
                                      ELSE DEFAULT_MIN >>)

generate_timestamp_proof(claim_value, encrypted_data) ==
    ZkOk(TimestampProof,
         << IF IsU64(claim_value.min) THEN U64ToString(claim_value.min.n)
                                      ELSE DEFAULT_MIN,
            IF IsU64(claim_value.max) THEN U64ToString(claim_value.max.n)
                                      ELSE DEFAULT_MAX >>)

\* generate_hash_proof that reports the data itself in place of its hash.
generate_hash_proof_leaking(claim_value, encrypted_data) ==
    IF ~IsStr(claim_value.hash) THEN ZkErr(ERR_MISSING_HASH)
    ELSE ZkOk(HashProof, <<claim_value.hash.s, encrypted_data>>)

generate_hash_proof(claim_value, encrypted_data) ==
    IF ~IsStr(claim_value.hash) THEN ZkErr(ERR_MISSING_HASH)
    ELSE ZkOk(HashProof,
              <<claim_value.hash.s, HexEncode(Sha256(encrypted_data))>>)

\* ZKProofService::generate whose fallback arm proves a timestamp claim.
ZKProofGenerate_lenient(claim_type, claim_value, encrypted_data) ==
    IF claim_type = CT_keyword THEN generate_keyword_proof(claim_value, encrypted_data)
    ELSE IF claim_type = CT_file_hash THEN generate_hash_proof(claim_value, encrypted_data)
    ELSE generate_timestamp_proof(claim_value, encrypted_data)

\* ZKProofService::generate: dispatch on the claim type tag.
ZKProofGenerate(claim_type, claim_value, encrypted_data) ==
    IF claim_type = CT_keyword THEN generate_keyword_proof(claim_value, encrypted_data)
    ELSE IF claim_type = CT_timestamp
        THEN generate_timestamp_proof(claim_value, encrypted_data)
    ELSE IF claim_type = CT_file_hash THEN generate_hash_proof(claim_value, encrypted_data)
    ELSE ZkErr(ERR_UNSUPPORTED_PREFIX \o claim_type)

(* BiometricService (biometric.rs) and LivenessService (liveness.rs).      *)
(* Confidence scores are in hundredths: 0.85 is 85.                        *)

calculate_confidence(data, method) ==
    IF Len(data) > 100 THEN 85
    ELSE IF Len(data) > 50 THEN 75
    ELSE 65

\* BiometricService::verify
BiometricVerify(biometric_data, method) ==
    IF biometric_data = <<>>
    THEN [ok |-> FALSE, err |-> ERR_EMPTY_BIOMETRIC, verified |-> FALSE, confidence |-> 0]
    ELSE [ok |-> TRUE, err |-> <<>>,
          verified   |-> calculate_confidence(biometric_data, method) >= 70,
          confidence |-> calculate_confidence(biometric_data, method)]

\* u64 values near the two ends of the range: a negative number n stands
\* for 2^64 + n, the value a wrapped subtraction leaves.
U64Greater(a, b) == IF (a < 0) = (b < 0) THEN a > b ELSE a < 0

\* u64::to_string, also of a wrapped value within 51616 of 2^64
\* (2^64 = 18446744073709551616).
U64WrappedToString(n) ==
    IF n >= 0 THEN U64ToString(n)
    ELSE LET low == 51616 + n
         IN  <<49, 56, 52, 52, 54, 55, 52, 52, 48, 55, 51, 55, 48, 57, 53>>
               \o <<48 + (low \div 10000), 48 + ((low \div 1000) % 10),
                    48 + ((low \div 100) % 10), 48 + ((low \div 10) % 10),
                    48 + (low % 10)>>

\* LivenessService::check at clock reading t.  The u64 subtractions
\* t - 3600, t - 86400 and t - 604800 overflow for an early clock: the build
\* with overflow checks panics there, the build without them wraps.
LivenessCheck(vault_id, user_address, t, checked) ==
    LET last_seen == t - 3600
        first     == U64Greater(last_seen, t - 86400)
        second    == U64Greater(last_seen, t - 604800)
        panics    == checked /\ (t < 3600 \/ t < 86400 \/ (~first /\ t < 604800))
        confidence == IF first THEN 90 ELSE IF second THEN 70 ELSE 30
    IN  IF panics
        THEN [panicked |-> TRUE, alive |-> FALSE, last_seen |-> <<>>, confidence |-> 0]
        ELSE [panicked |-> FALSE,
              alive      |-> confidence > 50,
              last_seen  |-> U64WrappedToString(last_seen),
              confidence |-> confidence]

(* The confidential data behind a claim.                                   *)

\* The encrypted form of a plaintext (the Seal session encryption the
\* service would undo): a header byte, then every byte shifted.
Seal(plaintext) ==
    <<1>> \o [i \in 1..Len(plaintext) |-> (plaintext[i] + 128) % 256]

\* The keyword claim's predicate: keyword occurs in the plaintext.
Contains(plaintext, keyword) ==
    \E i \in 0..(Len(plaintext) - Len(keyword)) :
        SubSeq(plaintext, i + 1, i + Len(keyword)) = keyword

\* The value of a string of decimal digits; -1 for anything else.
RECURSIVE DecimalValue(_)
DecimalValue(text) ==
    IF text = <<>> \/ \E i \in 1..Len(text) : text[i] < 48 \/ text[i] > 57 THEN -1
    ELSE IF Len(text) = 1 THEN text[1] - 48
    ELSE 10 * DecimalValue(SubSeq(text, 1, Len(text) - 1)) + (text[Len(text)] - 48)

\* The timestamp claim's predicate: the plaintext embeds a timestamp (here:
\* is one, in decimal) lying in [min, max], an absent bound not binding.
TimestampInRange(plaintext, claim_value) ==
    /\ DecimalValue(plaintext) >= 0
    /\ IsU64(claim_value.min) => claim_value.min.n <= DecimalValue(plaintext)
    /\ IsU64(claim_value.max) => DecimalValue(plaintext) <= claim_value.max.n

(* Inputs and bounds.                                                      *)

\* AttestationService::new: ENCLAVE_IMAGE_ID when set, else the default.
\* "img-2" stands for a value set in the environment.
ImageIds == {DEFAULT_IMAGE_ID, <<105, 109, 103, 45, 50>>}

\* Caller-supplied vault identifiers: "a", "aa", and one made of a quote, a
\* backslash, a line feed, a control byte and a two-byte UTF-8 character.
VaultIds == {<<97>>, <<97, 97>>, <<34, 92, 10, 1, 195, 169>>}

\* Operation tags given to generate: two of the handlers' tags and the
\* free-text tags "a" and "aa".
Operations == {OP_BIOMETRIC, OP_LIVENESS, <<97>>, <<97, 97>>}

\* Claim type tags sent by callers: the three supported ones, "Keyword",
\* the empty tag and "range".
ClaimTypes ==
    {CT_keyword, CT_timestamp, CT_file_hash,
     <<75, 101, 121, 119, 111, 114, 100>>, <<>>, <<114, 97, 110, 103, 101>>}

\* Plaintexts: "a", "ab", "150", "950".
Plaintexts == {<<97>>, <<97, 98>>, <<49, 53, 48>>, <<57, 53, 48>>}

\* claim_value objects: every combination of the four fields below.
ClaimValues ==
    [keyword : {Absent, JStr(<<97>>), JStr(<<98>>), JU64(7)},
     min     : {Absent, JU64(100), JI64(-5)},
     max     : {Absent, JU64(200), JStr(<<50, 48, 48>>)},
     hash    : {Absent, JStr(HexEncode(Sha256(<<97>>))), JStr(<<97, 98>>)}]

\* Clock readings of the attestation runs.
AttestTimes == {1700000000, 1700000060}

\* Attestations kept in the history.
MaxAttest == 2

NoAttestation ==
    [called |-> FALSE, vault_id |-> <<>>, operation |-> <<>>,
     result |-> [document |-> <<>>, signature |-> <<>>,
                 enclave_info |-> [image_id |-> <<>>,
                                   measurements |-> [pcr0 |-> <<>>, pcr1 |-> <<>>,
                                                     pcr2 |-> <<>>],
                                   timestamp |-> 0]]]

(* Direct use of AttestationService.                                       *)

HandlerIdle ==
    /\ pc = "idle"
    /\ req = [kind |-> "none"]
    /\ cap = [kind |-> "none"]
    /\ resp = [kind |-> "none"]
    /\ trace = <<>>

NoProof ==
    [called |-> FALSE, claim_type |-> <<>>,
     claim_value |-> [keyword |-> Absent, min |-> Absent, max |-> Absent,
                      hash |-> Absent],
     plaintext |-> <<>>, sealed |-> FALSE, encrypted_data |-> <<>>,
     result |-> ZkErr(<<>>)]

InitAttest ==
    /\ image_id \in ImageIds
    /\ overflow_checks = FALSE
    /\ now \in AttestTimes
    /\ att = NoAttestation
    /\ attLog = {}
    /\ zk = NoProof
    /\ HandlerIdle

\* One call attestation.generate(vault_id, operation).
AttestCall(vault_id, operation) ==
    LET entry == [vault_id  |-> vault_id,
                  operation |-> operation,
                  document  |-> AttestationDocumentOf(image_id, vault_id, operation, now),
                  measurements |-> get_pcr_measurements(image_id)]
    IN  /\ entry \in attLog \/ Cardinality(attLog) < MaxAttest
        /\ att' = [called |-> TRUE, vault_id |-> vault_id, operation |-> operation,
                   result |-> AttestationGenerate(image_id, vault_id, operation, now)]
        /\ attLog' = attLog \cup {entry}
        /\ UNCHANGED <<image_id, overflow_checks, now, zk, pc, req, cap, resp, trace>>

\* The clock moves on.
TickAttest ==
    /\ \E t \in AttestTimes : t > now /\ now' = t
    /\ UNCHANGED <<image_id, overflow_checks, att, attLog, zk, pc, req, cap, resp, trace>>

NextAttest ==
    \/ \E v \in VaultIds, op \in Operations : AttestCall(v, op)
    \/ TickAttest

SpecAttest == InitAttest /\ [][NextAttest]_vars

(* Direct use of ZKProofService.                                           *)

\* A call about to be made: the claim and the data, as a plaintext that
\* arrives as it is or in its encrypted form.
PendingProof(claim_type, claim_value, plaintext, sealed) ==
    [called |-> FALSE, claim_type |-> claim_type, claim_value |-> claim_value,
     plaintext |-> plaintext, sealed |-> sealed,
     encrypted_data |-> IF sealed THEN Seal(plaintext) ELSE plaintext,
     result |-> ZkErr(<<>>)]

InitProve ==
    /\ image_id = DEFAULT_IMAGE_ID
    /\ overflow_checks = FALSE
    /\ now \in AttestTimes
    /\ att = NoAttestation
    /\ attLog = {}
    /\ \E ct \in ClaimTypes, cv \in ClaimValues, p \in Plaintexts, sealed \in BOOLEAN :
            zk = PendingProof(ct, cv, p, sealed)
    /\ HandlerIdle

\* The call zk_proof.generate(claim_type, claim_value, encrypted_data).
ProveCall ==
    /\ ~zk.called
    /\ zk' = [zk EXCEPT !.called = TRUE,
                        !.result = ZKProofGenerate(zk.claim_type, zk.claim_value,
                                                   zk.encrypted_data)]
    /\ UNCHANGED <<image_id, overflow_checks, now, att, attLog, pc, req, cap, resp, trace>>

NextProve == ProveCall

SpecProve == InitProve /\ [][NextProve]_vars

(* The request handlers (main.rs).  A handler runs up to the end of its    *)
(* capability call in one step and generates the attestation and answers   *)
(* in the next; the clock may move in between.                             *)

\* Clock readings of the server: the epoch, one hour and one day after it,
\* and a present-day reading.
ServerTimes == {0, 3600, 86400, 1700000000}

\* biometric_data as sent: base64 of nothing, of 3, 51 and 101 bytes, and
\* "!", which is not base64.
BiometricInputs ==
    {Base64Encode(<<>>), Base64Encode(<<1, 2, 3>>),
     Base64Encode([i \in 1..51 |-> 7]), Base64Encode([i \in 1..101 |-> 7]),
     <<33>>}

Methods == {"fingerprint", "voice"}

UserAddresses == {"0x1"}

\* encrypted_data as sent: base64 of "ab", and "!".
EncryptedInputs == {Base64Encode(<<97, 98>>), <<33>>}

\* claim_value objects sent to /zk/generate.
HandlerClaimValues ==
    {[keyword |-> JStr(<<97>>), min |-> Absent, max |-> Absent, hash |-> Absent],
     [keyword |-> Absent, min |-> JU64(100), max |-> JU64(200), hash |-> Absent],
     [keyword |-> Absent, min |-> Absent, max |-> Absent, hash |-> JStr(<<97, 98>>)]}

HandlerClaimTypes == {CT_keyword, CT_timestamp, CT_file_hash} \cup {<<114, 97, 110, 103, 101>>}

NoneAttestation == [some |-> FALSE, value |-> NoAttestation.result]
SomeAttestation(a) == [some |-> TRUE, value |-> a]

\* Err(StatusCode)
ErrorResponse(status) == [kind |-> "error", status |-> status]

\* A call of a service, as the history records it.
Called(name, vault_id, operation) == <<name, vault_id, operation>>

Init ==
    /\ image_id \in ImageIds
    /\ overflow_checks \in BOOLEAN
    /\ now \in ServerTimes
    /\ att = NoAttestation
    /\ attLog = {}
    /\ zk = NoProof
    /\ HandlerIdle

\* biometric_verify up to the end of biometric.verify.
BiometricVerifyStart(vault_id, biometric_data, method) ==
    LET biometric_bytes == Base64Decode(biometric_data)
        result == BiometricVerify(biometric_bytes, method)
    IN  /\ pc = "idle"
        /\ req' = [kind |-> "biometric", vault_id |-> vault_id,
                   biometric_data |-> biometric_data, method |-> method]
        /\ IF biometric_bytes = <<-1>>
           THEN /\ pc' = "done"
                /\ resp' = ErrorResponse(400)
                /\ UNCHANGED <<cap, trace>>
           ELSE /\ trace' = Append(trace, Called("biometric.verify", <<>>, <<>>))
                /\ IF ~result.ok
                   THEN /\ pc' = "done"
                        /\ resp' = ErrorResponse(500)
                        /\ UNCHANGED cap
                   ELSE /\ pc' = "attest"
                        /\ cap' = [kind |-> "biometric", verified |-> result.verified,
                                   confidence |-> result.confidence]
                        /\ UNCHANGED resp
        /\ UNCHANGED <<image_id, overflow_checks, now, att, attLog, zk>>

\* biometric_verify from attestation.generate to the response.
BiometricVerifyAttest ==
    /\ pc = "attest"
    /\ req.kind = "biometric"
    /\ trace' = Append(trace, Called("attestation.generate", req.vault_id, OP_BIOMETRIC))
    /\ resp' = [kind |-> "ok", status |-> 200,
                verified    |-> cap.verified,
                attestation |-> SomeAttestation(
                    AttestationGenerate(image_id, req.vault_id, OP_BIOMETRIC, now)),
                confidence  |-> cap.confidence]
    /\ pc' = "done"
    /\ UNCHANGED <<image_id, overflow_checks, now, att, attLog, zk, req, cap>>

\* liveness_check up to the end of liveness.check.  A panic of the handler
\* leaves the request without a response.
LivenessCheckStart(vault_id, user_address) ==
    LET result == LivenessCheck(vault_id, user_address, now, overflow_checks)
    IN  /\ pc = "idle"
        /\ req' = [kind |-> "liveness", vault_id |-> vault_id,
                   user_address |-> user_address]
        /\ trace' = Append(trace, Called("liveness.check", <<>>, <<>>))
        /\ IF result.panicked
           THEN /\ pc' = "done"
                /\ resp' = [kind |-> "panic"]
                /\ UNCHANGED cap
           ELSE /\ pc' = "attest"
                /\ cap' = [kind |-> "liveness", alive |-> result.alive,
                           last_seen |-> result.last_seen,
                           confidence |-> result.confidence]
                /\ UNCHANGED resp
        /\ UNCHANGED <<image_id, overflow_checks, now, att, attLog, zk>>

\* liveness_check with the attestation attached whatever the result.
LivenessAttestation_always(self_image_id, vault_id, alive, t) ==
    SomeAttestation(AttestationGenerate(self_image_id, vault_id, OP_LIVENESS, t))

\* "Generate attestation if alive"
LivenessAttestation(self_image_id, vault_id, alive, t) ==
    IF alive
    THEN SomeAttestation(AttestationGenerate(self_image_id, vault_id, OP_LIVENESS, t))
    ELSE NoneAttestation

\* liveness_check from the attestation, if any, to the response.
LivenessCheckAttest ==
    LET attestation == LivenessAttestation(image_id, req.vault_id, cap.alive, now)
    IN  /\ pc = "attest"
        /\ req.kind = "liveness"
        /\ trace' = IF attestation.some
                    THEN Append(trace, Called("attestation.generate", req.vault_id,
                                              OP_LIVENESS))
                    ELSE trace
        /\ resp' = [kind |-> "ok", status |-> 200,
                    alive       |-> cap.alive,
                    last_seen   |-> cap.last_seen,
                    confidence  |-> cap.confidence,
                    attestation |-> attestation]
        /\ pc' = "done"
        /\ UNCHANGED <<image_id, overflow_checks, now, att, attLog, zk, req, cap>>

\* zk_generate up to the end of zk_proof.generate.
ZkGenerateStart(vault_id, claim_type, claim_value, encrypted_data) ==
    LET encrypted_bytes == Base64Decode(encrypted_data)
        proof_result == ZKProofGenerate(claim_type, claim_value, encrypted_bytes)
    IN  /\ pc = "idle"
        /\ req' = [kind |-> "zk", vault_id |-> vault_id, claim_type |-> claim_type,
                   claim_value |-> claim_value, encrypted_data |-> encrypted_data]
        /\ IF encrypted_bytes = <<-1>>
           THEN /\ pc' = "done"
                /\ resp' = ErrorResponse(400)
                /\ UNCHANGED <<cap, trace>>
           ELSE /\ trace' = Append(trace, Called("zk_proof.generate", <<>>, <<>>))
                /\ IF ~proof_result.ok
                   THEN /\ pc' = "done"
                        /\ resp' = ErrorResponse(500)
                        /\ UNCHANGED cap
                   ELSE /\ pc' = "attest"
                        /\ cap' = [kind |-> "zk", proof |-> proof_result.proof,
                                   public_signals |-> proof_result.public_signals]
                        /\ UNCHANGED resp
        /\ UNCHANGED <<image_id, overflow_checks, now, att, attLog, zk>>

\* zk_generate from attestation.generate to the response.
ZkGenerateAttest ==
    /\ pc = "attest"
    /\ req.kind = "zk"
    /\ trace' = Append(trace, Called("attestation.generate", req.vault_id, OP_ZK))
    /\ resp' = [kind |-> "ok", status |-> 200,
                proof          |-> cap.proof,
                public_signals |-> cap.public_signals,
                attestation    |-> SomeAttestation(
                    AttestationGenerate(image_id, req.vault_id, OP_ZK, now))]
    /\ pc' = "done"
    /\ UNCHANGED <<image_id, overflow_checks, now, att, attLog, zk, req, cap>>

\* The request is over; the server takes the next one.
Finish ==
    /\ pc = "done"
    /\ pc' = "idle"
    /\ req' = [kind |-> "none"]
    /\ cap' = [kind |-> "none"]
    /\ resp' = [kind |-> "none"]
    /\ trace' = <<>>
    /\ UNCHANGED <<image_id, overflow_checks, now, att, attLog, zk>>

\* The clock moves on.
Tick ==
    /\ \E t \in ServerTimes : t > now /\ now' = t
    /\ UNCHANGED <<image_id, overflow_checks, att, attLog, zk, pc, req, cap, resp, trace>>

Next ==
    \/ \E v \in VaultIds, d \in BiometricInputs, m \in Methods :
            BiometricVerifyStart(v, d, m)
    \/ BiometricVerifyAttest
    \/ \E v \in VaultIds, u \in UserAddresses : LivenessCheckStart(v, u)
    \/ LivenessCheckAttest
    \/ \E v \in VaultIds, ct \in HandlerClaimTypes, cv \in HandlerClaimValues,
          d \in EncryptedInputs : ZkGenerateStart(v, ct, cv, d)
    \/ ZkGenerateAttest
    \/ Finish
    \/ Tick

Spec == Init /\ [][Next]_vars

(* Claims about AttestationService, checked under SpecAttest.              *)

\* What a verifier reads back from the last attestation's document.
DecodedDocument == ParseAttestationDocument(Base64Decode(att.result.document))

\* C1: after generate succeeds, decoding the returned document yields the
\* request's vault_id and operation, and the binding digest recomputed over
\* the decoded vault_id and operation and enclave_info.measurements.pcr0 is
\* the digest embedded in the document.
C1_RoundTrip ==
    att.called =>
        /\ DecodedDocument.ok
        /\ DecodedDocument.vault_id = att.vault_id
        /\ DecodedDocument.operation = att.operation
        /\ DecodedDocument.digest =
             DIGEST_PREFIX \o HexEncode(Sha256(
                DecodedDocument.vault_id \o DecodedDocument.operation
                    \o att.result.enclave_info.measurements.pcr0))

\* C1 witness: an attestation for a vault_id that needs escaping was
\* generated and its document decodes.
C1_Witness ==
    /\ att.called
    /\ att.vault_id = <<34, 92, 10, 1, 195, 169>>
    /\ DecodedDocument.ok

\* C2: any two attestations of one enclave whose (vault_id, operation) pairs
\* differ carry different binding digests, that is, no two distinct
\* (vault_id, operation, register0) triples are hashed from the same bytes.
C2_DistinctPairsDistinctDigests ==
    \A e1 \in attLog, e2 \in attLog :
        <<e1.vault_id, e1.operation>> # <<e2.vault_id, e2.operation>>
            => e1.document.digest # e2.document.digest

\* C3: all attestations of a process carry the same module_id and the same
\* three measurements, and two attestations for the same (vault_id,
\* operation) carry the same binding digest whatever their timestamps.
C3_DeterministicApartFromClock ==
    \A e1 \in attLog, e2 \in attLog :
        /\ e1.document.module_id = e2.document.module_id
        /\ e1.measurements = e2.measurements
        /\ (e1.vault_id = e2.vault_id /\ e1.operation = e2.operation)
              => e1.document.digest = e2.document.digest

\* C3 witness: the same (vault_id, operation) attested at two clock readings.
C3_Witness ==
    \E e1 \in attLog, e2 \in attLog :
        /\ e1.vault_id = e2.vault_id
        /\ e1.operation = e2.operation
        /\ e1.document.timestamp # e2.document.timestamp

(* Claims about ZKProofService, checked under SpecProve.                   *)

SupportedClaimTypes == {CT_keyword, CT_timestamp, CT_file_hash}

\* C4: for every claim_type other than "keyword", "timestamp" and
\* "file_hash", generate fails with the unsupported-claim-type error naming
\* that claim_type and returns no proof, whatever the claim_value and data.
C4_UnsupportedTypeFails ==
    (zk.called /\ zk.claim_type \notin SupportedClaimTypes) =>
        /\ ~zk.result.ok
        /\ zk.result.err = ERR_UNSUPPORTED_PREFIX \o zk.claim_type
        /\ zk.result.public_signals = <<>>
        /\ zk.result.proof = NullProof

\* C4 witness: the tag "Keyword" was refused although claim_value carries a
\* keyword.
C4_Witness ==
    /\ zk.called
    /\ zk.claim_type = <<75, 101, 121, 119, 111, 114, 100>>
    /\ IsStr(zk.claim_value.keyword)
    /\ ~zk.result.ok

\* C5: when claim_value lacks `keyword` for a keyword claim, or `hash` for a
\* file_hash claim, generate fails with the missing-field error (not the
\* unsupported-type one) and returns no proof, for every data.
C5_MissingFieldFails ==
    /\ (zk.called /\ zk.claim_type = CT_keyword
                  /\ zk.claim_value.keyword.kind = "absent") =>
            /\ ~zk.result.ok
            /\ zk.result.err = ERR_MISSING_KEYWORD
            /\ zk.result.public_signals = <<>>
    /\ (zk.called /\ zk.claim_type = CT_file_hash
                  /\ zk.claim_value.hash.kind = "absent") =>
            /\ ~zk.result.ok
            /\ zk.result.err = ERR_MISSING_HASH
            /\ zk.result.public_signals = <<>>

\* C5 witness: a keyword claim without `keyword` over encrypted data failed.
C5_Witness ==
    /\ zk.called
    /\ zk.claim_type = CT_keyword
    /\ zk.claim_value.keyword.kind = "absent"
    /\ zk.sealed
    /\ ~zk.result.ok

\* C6: a keyword proof is returned only when the keyword occurs in the
\* plaintext of the data, and a timestamp proof only when the plaintext's
\* timestamp lies in [min, max].
C6_ProofOnlyWhenPredicateHolds ==
    (zk.called /\ zk.result.ok) =>
        /\ zk.claim_type = CT_keyword =>
                Contains(zk.plaintext, zk.claim_value.keyword.s)
        /\ zk.claim_type = CT_timestamp =>
                TimestampInRange(zk.plaintext, zk.claim_value)

\* C7: for a file_hash claim with `hash` present, public_signals is
\* <<expected_hash, actual_hash>> with expected_hash = claim_value.hash and
\* actual_hash the hash of the plaintext, so that the two agree when
\* claim_value.hash is the plaintext's hash, whichever form the data has.
C7_HashOverPlaintext ==
    (zk.called /\ zk.claim_type = CT_file_hash /\ IsStr(zk.claim_value.hash)) =>
        /\ zk.result.ok
        /\ Len(zk.result.public_signals) = 2
        /\ zk.result.public_signals[1] = zk.claim_value.hash.s
        /\ zk.result.public_signals[2] = HexEncode(Sha256(zk.plaintext))
        /\ zk.claim_value.hash.s = HexEncode(Sha256(zk.plaintext)) =>
                zk.result.public_signals[2] = zk.result.public_signals[1]

\* C8: a timestamp claim always succeeds with public_signals = <<min, max>>
\* in decimal, an absent min giving "0" and an absent max "9999999999";
\* min = 100 and max = 200 give <<"100", "200">>.
C8_TimestampSignals ==
    (zk.called /\ zk.claim_type = CT_timestamp) =>
        LET sig == zk.result.public_signals
            min == zk.claim_value.min
            max == zk.claim_value.max
        IN  /\ zk.result.ok
            /\ Len(sig) = 2
            /\ min.kind = "absent" => sig[1] = <<48>>
            /\ max.kind = "absent" => sig[2] = <<57, 57, 57, 57, 57, 57, 57, 57, 57, 57>>
            /\ IsU64(min) => DecimalValue(sig[1]) = min.n /\ (sig[1][1] # 48 \/ min.n = 0)
            /\ IsU64(max) => DecimalValue(sig[2]) = max.n /\ (sig[2][1] # 48 \/ max.n = 0)
            /\ (min = JU64(100) /\ max = JU64(200)) =>
                    sig = << <<49, 48, 48>>, <<50, 48, 48>> >>

\* C8 witness: min = 100, max = 200 over a payload embedding 150.
C8_Witness ==
    /\ zk.called
    /\ zk.claim_type = CT_timestamp
    /\ zk.claim_value.min = JU64(100)
    /\ zk.claim_value.max = JU64(200)
    /\ zk.plaintext = <<49, 53, 48>>
    /\ zk.result.ok

\* C9 as stated: no element of the public_signals of a successful call is
\* the confidential data verbatim.
C9_NoSignalIsTheData ==
    (zk.called /\ zk.result.ok) =>
        \A i \in 1..Len(zk.result.public_signals) :
            zk.result.public_signals[i] # zk.encrypted_data

\* The texts a caller states in claim_value, as generate would publish them.
ClaimTexts(claim_value) ==
    {KEYWORD_HASH_PREFIX \o HexEncode(Sha256(claim_value.keyword.s)),
     claim_value.hash.s,
     IF IsU64(claim_value.min) THEN U64ToString(claim_value.min.n) ELSE DEFAULT_MIN,
     IF IsU64(claim_value.max) THEN U64ToString(claim_value.max.n) ELSE DEFAULT_MAX}

\* C9 as amended: an element of public_signals equals the confidential data
\* only when it is text the caller stated in claim_value; nothing is copied
\* from the data.
C9_OnlyClaimTextEqualsData ==
    (zk.called /\ zk.result.ok) =>
        \A i \in 1..Len(zk.result.public_signals) :
            zk.result.public_signals[i] = zk.encrypted_data =>
                zk.result.public_signals[i] \in ClaimTexts(zk.claim_value)

\* C9 witness: a file_hash proof whose expected hash is the data's own text,
\* beside the data's digest.
C9_Witness ==
    /\ zk.called
    /\ zk.result.ok
    /\ zk.claim_type = CT_file_hash
    /\ zk.result.public_signals[1] = zk.encrypted_data
    /\ zk.result.public_signals[2] = HexEncode(Sha256(zk.encrypted_data))

(* Claims about the request handlers, checked under Spec.                  *)

\* The capability call and the operation tag of each handler.
CapabilityOf(kind) ==
    CASE kind = "biometric" -> "biometric.verify"
      [] kind = "liveness"  -> "liveness.check"
      [] kind = "zk"        -> "zk_proof.generate"

TagOf(kind) ==
    CASE kind = "biometric" -> OP_BIOMETRIC
      [] kind = "liveness"  -> OP_LIVENESS
      [] kind = "zk"        -> OP_ZK

\* The calls of a request that attested: the capability, then generate for
\* the request's vault_id and the handler's tag.
CapabilityThenAttestation ==
    trace = << Called(CapabilityOf(req.kind), <<>>, <<>>),
               Called("attestation.generate", req.vault_id, TagOf(req.kind)) >>

\* The attestation in the response binds the request's vault_id and the
\* handler's tag.
ResponseAttestationBindsRequest ==
    LET doc == ParseAttestationDocument(Base64Decode(resp.attestation.value.document))
    IN  /\ doc.ok
        /\ doc.vault_id = req.vault_id
        /\ doc.operation = TagOf(req.kind)

\* C10 as stated: in each of the three handlers the capability is called
\* first and the attestation generated afterwards for the request's
\* vault_id and the handler's tag, and every successful response carries an
\* attestation, whatever the capability's result.
C10_EverySuccessAttested ==
    /\ pc = "attest" => trace = << Called(CapabilityOf(req.kind), <<>>, <<>>) >>
    /\ (pc = "done" /\ resp.kind = "ok") =>
            /\ resp.attestation.some
            /\ CapabilityThenAttestation
            /\ ResponseAttestationBindsRequest

\* C10 as amended: the order holds in all three handlers; biometric_verify
\* and zk_generate attach an attestation to every successful response
\* (a failed verification included), and liveness_check attaches one
\* exactly when the result is alive.
C10_SuccessAttestedUnlessNotAlive ==
    /\ pc = "attest" => trace = << Called(CapabilityOf(req.kind), <<>>, <<>>) >>
    /\ (pc = "done" /\ resp.kind = "ok" /\ req.kind \in {"biometric", "zk"}) =>
            /\ resp.attestation.some
            /\ CapabilityThenAttestation
            /\ ResponseAttestationBindsRequest
    /\ (pc = "done" /\ resp.kind = "ok" /\ req.kind = "liveness") =>
            /\ resp.attestation.some <=> resp.alive
            /\ resp.alive =>
                    CapabilityThenAttestation /\ ResponseAttestationBindsRequest
            /\ ~resp.alive => trace = << Called("liveness.check", <<>>, <<>>) >>

\* C10 witness: a biometric verification that failed was answered with an
\* attestation.
C10_Witness ==
    /\ pc = "done"
    /\ resp.kind = "ok"
    /\ req.kind = "biometric"
    /\ ~resp.verified
    /\ resp.attestation.some

\* The request failed for a reason in the request itself: an unsupported
\* claim_type or a claim_value lacking its field, or empty biometric input.
ClientFault ==
    \/ /\ req.kind = "zk"
       /\ Base64Decode(req.encrypted_data) # <<-1>>
       /\ ~ZKProofGenerate(req.claim_type, req.claim_value,
                           Base64Decode(req.encrypted_data)).ok
    \/ /\ req.kind = "biometric"
       /\ Base64Decode(req.biometric_data) = <<>>

\* C11: a request that fails because claim_type is unsupported, claim_value
\* is malformed or the biometric input is empty is answered with a client
\* error (a 4xx status), never with the 500 that stands for an internal
\* attestation or proving failure.
C11_ClientFaultIsClientError ==
    (pc = "done" /\ resp.kind = "error" /\ ClientFault) =>
        /\ resp.status >= 400
        /\ resp.status < 500

====
